---- MODULE Spec2Model ----
(***************************************************************************)
(* ESPHome key maker: gen_secrets.py (the command line tool that scans a   *)
(* folder of device YAMLs and merges derived secrets into secrets.yaml)    *)
(* and esphome_keys (the HMAC based derivation of the secrets).            *)
(*                                                                         *)
(* Python strings are sequences of one-character strings, so that strip,   *)
(* concatenation, slicing and base64 are computed and not assumed.         *)
(***************************************************************************)
EXTENDS Integers, Sequences, FiniteSets, TLC

VARIABLES
    files,        \* the YAML files under the folder, in rglob (discovery) order
    store,        \* the secrets.yaml file on disk
    runs,         \* number of invocations of main() started so far
    pc,           \* position of the current invocation: idle / scan / done / exit
    args,         \* the parsed command line of the current invocation
    existing,     \* main: existing
    new_kv,       \* main: new_kv, a dict in insertion order: sequence of <<key, value>>
    seen_devices, \* main: seen_devices
    scanned,      \* number of files the for loop of main has consumed
    outcomes,     \* per consumed file, which branch of the loop body it took
    out_map,      \* main: out_map
    out,          \* lines printed on stdout
    err,          \* lines printed on stderr (warnings, exit messages)
    store0,       \* secrets.yaml as it was when the current invocation started
    prev,         \* mode of the previous invocation when it ended by writing the store
    call,         \* a direct call of a library function (derivation / identity)
    ret           \* what that call returned

vars == <<files, store, runs, pc, args, existing, new_kv, seen_devices, scanned,
          outcomes, out_map, out, err, store0, prev, call, ret>>

----------------------------------------------------------------------------
\* Bounds of the model

\* at most this many YAML files under the scanned folder
MaxDocs == 2
\* at most this many invocations of the tool, one after the other
MaxRuns == 2
\* requested OTA lengths range from -LenSlack to (base64 length + LenSlack)
LenSlack == 3

\* Program constants
DigestSize == 32
DefaultOtaLength == 32
MinOtaLength == 8

----------------------------------------------------------------------------
\* YAML values, as yaml.safe_load builds them

VStr(s) == [t |-> "str", s |-> s, n |-> 0]
VInt(n) == [t |-> "int", s |-> <<>>, n |-> n]
VBool(b) == [t |-> "bool", s |-> <<>>, n |-> IF b THEN 1 ELSE 0]
None == [t |-> "null", s |-> <<>>, n |-> 0]
\* a key that is not in the mapping
Missing == [t |-> "missing", s |-> <<>>, n |-> 0]

\* dict.get(key): the value, or None when the key is missing
Get(v) == IF v.t = "missing" THEN None ELSE v

\* Python truthiness, as used by "if not name"
Truthy(v) ==
    CASE v.t = "str" -> v.s # <<>>
      [] v.t = "int" -> v.n # 0
      [] v.t = "bool" -> v.n = 1
      [] OTHER -> FALSE

Digit(d) == <<"0", "1", "2", "3", "4", "5", "6", "7", "8", "9">>[d + 1]

RECURSIVE Decimal(_)
Decimal(n) ==
    IF n < 0 THEN <<"-">> \o Decimal(0 - n)
    ELSE IF n < 10 THEN <<Digit(n)>>
    ELSE Decimal(n \div 10) \o <<Digit(n % 10)>>

\* Python str(x)
Str(v) ==
    CASE v.t = "str" -> v.s
      [] v.t = "int" -> Decimal(v.n)
      [] v.t = "bool" -> IF v.n = 1 THEN <<"T", "r", "u", "e">>
                         ELSE <<"F", "a", "l", "s", "e">>
      [] OTHER -> <<"N", "o", "n", "e">>

IsSpace(c) == c \in {" ", "\t"}

RECURSIVE LStrip(_)
LStrip(s) == IF s # <<>> /\ IsSpace(Head(s)) THEN LStrip(Tail(s)) ELSE s

RECURSIVE RStrip(_)
RStrip(s) ==
    IF s # <<>> /\ IsSpace(s[Len(s)]) THEN RStrip(SubSeq(s, 1, Len(s) - 1)) ELSE s

\* str.strip()
Strip(s) == RStrip(LStrip(s))

Min(a, b) == IF a < b THEN a ELSE b
Max(a, b) == IF a > b THEN a ELSE b

\* Python s[:n]
SlicePrefix(s, n) ==
    IF n >= 0 THEN SubSeq(s, 1, Min(n, Len(s)))
    ELSE SubSeq(s, 1, Max(0, Len(s) + n))

----------------------------------------------------------------------------
\* esphome_keys

\* the code point of a character (all characters of the model are ASCII)
Ascii(c) ==
    CASE c = " " -> 32 [] c = "\t" -> 9 [] c = "-" -> 45 [] c = ":" -> 58
      [] c = "0" -> 48 [] c = "1" -> 49 [] c = "2" -> 50 [] c = "3" -> 51
      [] c = "4" -> 52 [] c = "5" -> 53 [] c = "6" -> 54 [] c = "7" -> 55
      [] c = "8" -> 56 [] c = "9" -> 57
      [] c = "F" -> 70 [] c = "N" -> 78 [] c = "T" -> 84
      [] c = "a" -> 97 [] c = "b" -> 98 [] c = "c" -> 99 [] c = "d" -> 100
      [] c = "e" -> 101 [] c = "i" -> 105 [] c = "k" -> 107 [] c = "l" -> 108
      [] c = "m" -> 109 [] c = "n" -> 110 [] c = "o" -> 111 [] c = "p" -> 112
      [] c = "r" -> 114 [] c = "s" -> 115 [] c = "t" -> 116 [] c = "u" -> 117
      [] c = "x" -> 120 [] c = "y" -> 121
      [] OTHER -> 63

\* _as_bytes: str(x).encode("utf-8")
as_bytes(x) == [i \in 1..Len(x) |-> Ascii(x[i])]

\* hmac.new(key, msg, hashlib.sha256).digest(): the library's keyed hash.
\* What the model keeps of it: a function of (key, msg) alone, DigestSize bytes,
\* and different messages (shorter than the digest) or keys give different digests.
HmacSha256(key, msg) ==
    LET padded == msg \o <<128>>
        m(i) == IF i <= Len(padded) THEN padded[i] ELSE 0
        k(i) == IF key = <<>> THEN 0 ELSE key[((i - 1) % Len(key)) + 1]
    IN  [i \in 1..DigestSize |-> (3 * m(i) + 31 * k(i) + 7 * i) % 256]

\* _derive(label, device_name, master_secret)
derive(label, device_name, master_secret) ==
    LET msg == label \o <<":">> \o device_name
    IN  HmacSha256(as_bytes(master_secret), as_bytes(msg))

B64Alphabet ==
    <<"A", "B", "C", "D", "E", "F", "G", "H", "I", "J", "K", "L", "M",
      "N", "O", "P", "Q", "R", "S", "T", "U", "V", "W", "X", "Y", "Z",
      "a", "b", "c", "d", "e", "f", "g", "h", "i", "j", "k", "l", "m",
      "n", "o", "p", "q", "r", "s", "t", "u", "v", "w", "x", "y", "z",
      "0", "1", "2", "3", "4", "5", "6", "7", "8", "9", "+", "/">>

B64Char(n) == B64Alphabet[n + 1]

\* base64.b64encode(data).decode("ascii"): standard alphabet, "=" padding
RECURSIVE b64encode(_)
b64encode(data) ==
    IF data = <<>> THEN <<>>
    ELSE IF Len(data) = 1 THEN
        <<B64Char(data[1] \div 4), B64Char((data[1] % 4) * 16), "=", "=">>
    ELSE IF Len(data) = 2 THEN
        <<B64Char(data[1] \div 4),
          B64Char((data[1] % 4) * 16 + data[2] \div 16),
          B64Char((data[2] % 16) * 4), "=">>
    ELSE
        <<B64Char(data[1] \div 4),
          B64Char((data[1] % 4) * 16 + data[2] \div 16),
          B64Char((data[2] % 16) * 4 + data[3] \div 64),
          B64Char(data[3] % 64)>> \o b64encode(SubSeq(data, 4, Len(data)))

LabelApi == <<"a", "p", "i">>
LabelOta == <<"o", "t", "a">>

derive_api_key(device_name, master_secret) ==
    b64encode(derive(LabelApi, device_name, master_secret))

\* a derive_ota_password that forgets the minimum length
derive_ota_password_nomin(device_name, master_secret, length) ==
    SlicePrefix(b64encode(derive(LabelOta, device_name, master_secret)), length)

derive_ota_password(device_name, master_secret, length) ==
    LET b64 == b64encode(derive(LabelOta, device_name, master_secret))
    IN  SlicePrefix(b64, Max(MinOtaLength, length))

----------------------------------------------------------------------------
\* gen_secrets: documents and device identity

\* a section of a document: not there, there but not a mapping, or a mapping
\* whose keys "name" and "device_name" hold a value or are missing
Section(shape, name, device_name) ==
    [shape |-> shape, name |-> name, device_name |-> device_name]
NoSection == Section("absent", Missing, Missing)

\* what yaml.safe_load returns for a file, as far as main looks at it
Doc(isdict, subs, esphome) == [isdict |-> isdict, subs |-> subs, esphome |-> esphome]
EmptyDict == Doc(TRUE, NoSection, NoSection)

\* a file under the folder: its stem and its content. raw is
\*   "unparseable": safe_load (or open) raises
\*   "empty":       safe_load returns a falsy value (empty file, empty mapping)
\*   "list":        safe_load returns a truthy value that is not a mapping
\*   "map":         safe_load returns a mapping with the two sections
File(stem, raw, subs, esphome) ==
    [stem |-> stem, raw |-> raw, subs |-> subs, esphome |-> esphome]

\* read_yaml raises inside the try block
read_yaml_fails(f) == f.raw = "unparseable"

\* read_yaml: "safe_load(f) or {}", and {} on any exception
read_yaml(f) ==
    CASE f.raw = "unparseable" -> EmptyDict
      [] f.raw = "empty" -> EmptyDict
      [] f.raw = "list" -> Doc(FALSE, NoSection, NoSection)
      [] OTHER -> Doc(TRUE, f.subs, f.esphome)

\* a find_device_identity that looks in esphome before substitutions.device_name
find_device_identity_esphome_first(doc, stem) ==
    LET subs == IF doc.isdict THEN doc.subs ELSE NoSection
        n1 == IF subs.shape = "map" THEN Get(subs.name) ELSE None
        n2 == IF ~Truthy(n1) /\ doc.isdict /\ doc.esphome.shape = "map"
              THEN Get(doc.esphome.name) ELSE n1
        n3 == IF ~Truthy(n2) /\ subs.shape = "map" THEN Get(subs.device_name) ELSE n2
        n4 == IF ~Truthy(n3) THEN VStr(stem) ELSE n3
    IN  Str(n4)

\* find_device_identity(doc, path): the device name (main drops the second
\* component of the returned pair)
find_device_identity(doc, stem) ==
    LET subs == IF doc.isdict THEN doc.subs ELSE NoSection
        n0 == IF subs.shape = "map" THEN Get(subs.name) ELSE None
        n1 == IF subs.shape = "map" /\ ~Truthy(n0) THEN Get(subs.device_name) ELSE n0
        esphome == IF doc.isdict THEN doc.esphome ELSE NoSection
        n2 == IF ~Truthy(n1) /\ esphome.shape = "map" THEN Get(esphome.name) ELSE n1
        n3 == IF ~Truthy(n2) THEN VStr(stem) ELSE n2
    IN  Str(n3)

----------------------------------------------------------------------------
\* gen_secrets: the secret store

EmptyMap == [k \in {} |-> <<>>]

\* secrets.yaml on disk. shape is
\*   "absent":      no such file
\*   "unparseable": open or safe_load raises
\*   "scalar":      safe_load returns a truthy value that is not a mapping
\*   "map":         a mapping (an empty file loads as the empty mapping);
\*                  entries maps each key, a string, to its YAML value
Store(shape, entries) == [shape |-> shape, entries |-> entries]

\* load_existing_secrets prints a warning
load_warns(has_path, st) == has_path /\ st.shape \in {"unparseable", "scalar"}

\* load_existing_secrets(path): {str(k): str(v)}, or {} when there is no path, no
\* file, no mapping in it, or an exception
load_existing_secrets(has_path, st) ==
    IF ~has_path \/ st.shape # "map" THEN EmptyMap
    ELSE [k \in DOMAIN st.entries |-> Str(st.entries[k])]

\* a write_secrets that loses one of the longest keys
write_secrets_drop(mapping) ==
    IF DOMAIN mapping = {} THEN Store("map", EmptyMap)
    ELSE LET last == CHOOSE k \in DOMAIN mapping :
                        \A j \in DOMAIN mapping : Len(j) <= Len(k)
         IN  Store("map", [k \in DOMAIN mapping \ {last} |-> VStr(mapping[k])])

\* write_secrets(path, mapping): the file becomes the mapping, every value a string
write_secrets(mapping) ==
    Store("map", [k \in DOMAIN mapping |-> VStr(mapping[k])])

----------------------------------------------------------------------------
\* gen_secrets: dicts in insertion order (new_kv)

DictKeys(d) == {d[i][1] : i \in 1..Len(d)}
DictGet(d, k) == LET i == CHOOSE j \in 1..Len(d) : d[j][1] = k IN d[i][2]
\* d[k] = v
DictSet(d, k, v) ==
    IF k \in DictKeys(d)
    THEN [i \in 1..Len(d) |-> IF d[i][1] = k THEN <<k, v>> ELSE d[i]]
    ELSE Append(d, <<k, v>>)

----------------------------------------------------------------------------
\* gen_secrets: the decisions of main

ModeLabel(mode) == IF mode = "api" THEN LabelApi ELSE LabelOta

\* secret_key_name = args.mode + "-" + str(device_name).strip()
secret_key_name(mode, device_name) ==
    ModeLabel(mode) \o <<"-">> \o Strip(device_name)

\* a skip test that never skips
key_exists_never(key, ex) == FALSE

\* "if secret_key_name in existing"
key_exists(key, ex) == key \in DOMAIN ex

\* the derived value for the chosen mode
secret_value(mode, device_name, master_secret) ==
    IF mode = "api" THEN derive_api_key(device_name, master_secret)
    ELSE derive_ota_password(device_name, master_secret, DefaultOtaLength)

\* out_map = dict(existing); out_map.update(new_kv)
merge(ex, nkv) ==
    [k \in DOMAIN ex \cup DictKeys(nkv) |->
        IF k \in DictKeys(nkv) THEN DictGet(nkv, k) ELSE ex[k]]

\* a print test that only looks at --print
print_mode_flag_only(a) == a.print

\* "if args.print or not secrets_path"
print_mode(a) == a.print \/ ~a.output

\* the number after "Skipped existing:"
skipped_reported(ex, nkv) ==
    Cardinality(DOMAIN ex) - Cardinality(DictKeys(nkv) \cap DOMAIN ex)

----------------------------------------------------------------------------
\* The inputs of the model

SeqsUpTo(S, n) == UNION {[1..k -> S] : k \in 0..n}

\* master secrets; <<>> stands for "no source supplies one" (--master-secret,
\* --master-secret-file and ESPHOME_MASTER_SECRET all unset or empty)
Masters == {<<"k", "1">>, <<"k", "2">>}

\* the command lines: --mode, the master secret, --output given, --print given,
\* --force given, and whether the folder exists
ArgsRecord(mode, master, output, print, force, folder) ==
    [mode |-> mode, master |-> master, output |-> output, print |-> print,
     force |-> force, folder |-> folder]

\* the command lines main accepts
ValidArgs ==
    {ArgsRecord(mode, master, output, print, FALSE, TRUE) :
        mode \in {"api", "ota"}, master \in Masters,
        output \in BOOLEAN, print \in BOOLEAN}

\* the command lines of the model: those main accepts, each of them asking for a
\* written store with --force added, one without a master secret, one whose
\* folder does not exist
Args ==
    ValidArgs
    \cup {[a EXCEPT !.force = TRUE] : a \in {v \in ValidArgs : v.output /\ ~v.print}}
    \cup {ArgsRecord("api", <<>>, TRUE, FALSE, FALSE, TRUE),
          ArgsRecord("api", <<"k", "1">>, TRUE, FALSE, FALSE, FALSE)}
NoArgs ==
    [mode |-> "api", master |-> <<>>, output |-> FALSE, print |-> FALSE,
     force |-> FALSE, folder |-> FALSE]

\* the files a folder may hold
Files ==
    { \* x.yaml  substitutions: {name: 0}, esphome: {name: "a"}
      File(<<"x">>, "map", Section("map", VInt(0), Missing),
           Section("map", VStr(<<"a">>), Missing)),
      \* y.yaml  substitutions: {name: " a"}
      File(<<"y">>, "map", Section("map", VStr(<<" ", "a">>), Missing), NoSection),
      \* b.yaml  broken YAML
      File(<<"b">>, "unparseable", NoSection, NoSection),
      \* c.yaml  a top-level list
      File(<<"c">>, "list", NoSection, NoSection) }

KeyApiA == <<"a", "p", "i", "-", "a">>
KeyOtaM == <<"o", "t", "a", "-", "m">>

\* what secrets.yaml may hold before the first invocation
Stores ==
    { Store("absent", EmptyMap),
      Store("unparseable", EmptyMap),
      Store("scalar", EmptyMap),
      \* api-a: 7 / ota-m: y
      Store("map", [k \in {KeyApiA, KeyOtaM} |->
                      IF k = KeyApiA THEN VInt(7) ELSE VStr(<<"y">>)]) }

NoCall ==
    [fn |-> "none", doc |-> EmptyDict, stem |-> <<>>, device_name |-> <<>>,
     master_secret |-> <<>>, length |-> 0]
NoRet == [done |-> FALSE, val |-> <<>>]
Returned(v) == [done |-> TRUE, val |-> v]

----------------------------------------------------------------------------
\* main(), one invocation after the other

ErrLine(msg, file) == [msg |-> msg, file |-> file]
OutLine(kind, key, value, n_new, n_skipped) ==
    [kind |-> kind, key |-> key, value |-> value, n_new |-> n_new,
     n_skipped |-> n_skipped]
Outcome(what, device_name, key, value) ==
    [what |-> what, device_name |-> device_name, key |-> key, value |-> value]

Idle ==
    /\ runs = 0
    /\ pc = "idle"
    /\ args = NoArgs
    /\ existing = EmptyMap
    /\ new_kv = <<>>
    /\ seen_devices = {}
    /\ scanned = 0
    /\ outcomes = <<>>
    /\ out_map = EmptyMap
    /\ out = <<>>
    /\ err = <<>>
    /\ prev = "none"

Init ==
    /\ files \in SeqsUpTo(Files, MaxDocs)
    /\ store \in Stores
    /\ store0 = store
    /\ Idle
    /\ call = NoCall
    /\ ret = NoRet

\* main up to the for loop: parse_args, the folder check, load_master_secret,
\* load_existing_secrets
Start ==
    /\ pc \in {"idle", "done", "exit"}
    /\ runs < MaxRuns
    /\ \E a \in Args :
        /\ args' = a
        /\ IF a.force THEN
               \* argparse knows no --force: "unrecognized arguments", exit status 2
               /\ pc' = "exit"
               /\ err' = <<ErrLine("usage", 0)>>
               /\ existing' = EmptyMap
           ELSE IF ~a.folder THEN
               /\ pc' = "exit"
               /\ err' = <<ErrLine("folder_not_found", 0)>>
               /\ existing' = EmptyMap
           ELSE IF a.master = <<>> THEN
               /\ pc' = "exit"
               /\ err' = <<ErrLine("missing_master", 0)>>
               /\ existing' = EmptyMap
           ELSE
               /\ pc' = "scan"
               /\ err' = IF load_warns(a.output, store)
                         THEN <<ErrLine("warn_secrets", 0)>> ELSE <<>>
               /\ existing' = load_existing_secrets(a.output, store)
    /\ runs' = runs + 1
    /\ store0' = store
    /\ prev' = IF pc = "done" /\ ~print_mode(args) THEN args.mode ELSE "none"
    /\ new_kv' = <<>>
    /\ seen_devices' = {}
    /\ scanned' = 0
    /\ outcomes' = <<>>
    /\ out_map' = EmptyMap
    /\ out' = <<>>
    /\ UNCHANGED <<files, store, call, ret>>

\* one iteration of "for yml in walk_yaml_files(root)"
ScanFile ==
    /\ pc = "scan"
    /\ scanned < Len(files)
    /\ LET n == scanned + 1
           f == files[n]
           doc == read_yaml(f)
           device_name == find_device_identity(doc, f.stem)
           key == secret_key_name(args.mode, device_name)
           value == secret_value(args.mode, device_name, args.master)
       IN  /\ scanned' = n
           /\ err' = IF read_yaml_fails(f) THEN Append(err, ErrLine("warn_yaml", n))
                     ELSE err
           /\ IF ~doc.isdict THEN
                  /\ outcomes' = Append(outcomes, Outcome("not_a_mapping", <<>>, <<>>, <<>>))
                  /\ UNCHANGED <<seen_devices, new_kv, out>>
              ELSE IF key_exists(key, existing) THEN
                  /\ seen_devices' = seen_devices \cup {device_name}
                  /\ out' = Append(out, OutLine("skip", key, <<>>, 0, 0))
                  /\ outcomes' = Append(outcomes, Outcome("skipped", device_name, key, <<>>))
                  /\ UNCHANGED new_kv
              ELSE
                  /\ seen_devices' = seen_devices \cup {device_name}
                  /\ new_kv' = DictSet(new_kv, key, value)
                  /\ outcomes' = Append(outcomes, Outcome("added", device_name, key, value))
                  /\ UNCHANGED out
    /\ UNCHANGED <<files, store, runs, pc, args, existing, out_map, store0, prev,
                   call, ret>>

\* main after the loop: the merge, then print or write
Finish ==
    /\ pc = "scan"
    /\ scanned = Len(files)
    /\ pc' = "done"
    /\ out_map' = merge(existing, new_kv)
    /\ IF print_mode(args) THEN
           /\ out' = out \o [i \in 1..Len(new_kv) |->
                               OutLine("entry", new_kv[i][1], new_kv[i][2], 0, 0)]
           /\ UNCHANGED store
       ELSE
           /\ store' = write_secrets(out_map')
           /\ out' = Append(out, OutLine("ok", <<>>, <<>>, Len(new_kv),
                                         skipped_reported(existing, new_kv)))
    /\ UNCHANGED <<files, runs, args, existing, new_kv, seen_devices, scanned,
                   outcomes, err, store0, prev, call, ret>>

Next == Start \/ ScanFile \/ Finish

Spec == Init /\ [][Next]_vars

----------------------------------------------------------------------------
\* Direct calls of find_device_identity and derive_ota_password

\* the values a "name" or "device_name" key may hold
FieldValues ==
    {Missing, None, VStr(<<>>), VStr(<<"a">>), VStr(<<"b">>), VInt(0), VInt(1),
     VBool(FALSE), VBool(TRUE)}

SubsSections ==
    {NoSection, Section("scalar", Missing, Missing)}
    \cup {Section("map", a, b) : a \in FieldValues, b \in FieldValues}

EsphomeSections ==
    {NoSection, Section("scalar", Missing, Missing)}
    \cup {Section("map", a, Missing) : a \in FieldValues}

IdentityDocs ==
    {Doc(TRUE, s, e) : s \in SubsSections, e \in EsphomeSections}
    \cup {Doc(FALSE, NoSection, NoSection)}

InitIdentity ==
    /\ files = <<>>
    /\ store = Store("absent", EmptyMap)
    /\ store0 = store
    /\ Idle
    /\ call \in {[NoCall EXCEPT !.fn = "identity", !.doc = d, !.stem = <<"s">>] :
                    d \in IdentityDocs}
    /\ ret = NoRet

CallIdentity ==
    /\ call.fn = "identity"
    /\ ~ret.done
    /\ ret' = Returned(find_device_identity(call.doc, call.stem))
    /\ UNCHANGED <<files, store, runs, pc, args, existing, new_kv, seen_devices,
                   scanned, outcomes, out_map, out, err, store0, prev, call>>

NextIdentity == CallIdentity

SpecIdentity == InitIdentity /\ [][NextIdentity]_vars

\* length of the base64 text of a digest
B64Len == 4 * ((DigestSize + 2) \div 3)

OtaLengths == (0 - LenSlack)..(B64Len + LenSlack)
OtaNames == {<<>>, <<"a">>, <<" ", "a">>}

InitOta ==
    /\ files = <<>>
    /\ store = Store("absent", EmptyMap)
    /\ store0 = store
    /\ Idle
    /\ call \in {[NoCall EXCEPT !.fn = "ota", !.device_name = d, !.master_secret = m,
                                !.length = n] :
                    d \in OtaNames, m \in Masters, n \in OtaLengths}
    /\ ret = NoRet

CallOta ==
    /\ call.fn = "ota"
    /\ ~ret.done
    /\ ret' = Returned(derive_ota_password(call.device_name, call.master_secret,
                                           call.length))
    /\ UNCHANGED <<files, store, runs, pc, args, existing, new_kv, seen_devices,
                   scanned, outcomes, out_map, out, err, store0, prev, call>>

NextOta == CallOta

SpecOta == InitOta /\ [][NextOta]_vars

----------------------------------------------------------------------------
\* Properties

\* the key names the loop recorded as skipped
SkippedKeys == {outcomes[i].key : i \in {j \in 1..Len(outcomes) : outcomes[j].what = "skipped"}}
\* the key names the loop derived a value for
AddedKeys == {outcomes[i].key : i \in {j \in 1..Len(outcomes) : outcomes[j].what = "added"}}
\* what file i resolves to
NameOf(i) == find_device_identity(read_yaml(files[i]), files[i].stem)
KeyOf(i) == secret_key_name(args.mode, NameOf(i))

\* C1: when a run has finished, every key of the existing set is in the merged set
\* with the value it had, and so it is in the store the run wrote.
C1_NonDestructiveMerge ==
    pc = "done" =>
        /\ \A k \in DOMAIN existing : k \in DOMAIN out_map /\ out_map[k] = existing[k]
        /\ ~(args.print \/ ~args.output) =>
              /\ store.shape = "map"
              /\ \A k \in DOMAIN existing :
                    k \in DOMAIN store.entries /\ Str(store.entries[k]) = existing[k]

\* a finished writing run that skipped an existing key and added a new one
C1_Witness ==
    /\ pc = "done"
    /\ args.output /\ ~args.print
    /\ SkippedKeys # {}
    /\ AddedKeys # {}

\* C2: with --force, a run finishes, and every key that is in the existing store and
\* is derived for a discovered device carries the newly derived value in the merge.
C2_ForcedOverwrite ==
    LET ex == load_existing_secrets(args.output, store0)
        hit == {i \in 1..Len(files) : read_yaml(files[i]).isdict /\ KeyOf(i) \in DOMAIN ex}
    IN  (pc \in {"done", "exit"} /\ args.force /\ hit # {}) =>
            /\ pc = "done"
            /\ \A i \in hit :
                  /\ KeyOf(i) \in DOMAIN out_map
                  /\ out_map[KeyOf(i)] = secret_value(args.mode, NameOf(i), args.master)

\* C3: two files of one run that lead to the same key name get the same value.
C3_OneValuePerKey ==
    \A i, j \in 1..Len(outcomes) :
        (outcomes[i].what = "added" /\ outcomes[j].what = "added"
            /\ outcomes[i].key = outcomes[j].key)
        => outcomes[i].value = outcomes[j].value

\* a field counts when its key is in a mapping-shaped section
HasKey(sec, v) == sec.shape = "map" /\ v.t # "missing"
\* a field counts when its key is in a mapping-shaped section and its value is truthy
HasTruthy(sec, v) == sec.shape = "map" /\ v.t # "missing" /\ Truthy(v)

IdentityByKey(doc, stem) ==
    IF HasKey(doc.subs, doc.subs.name) THEN Str(doc.subs.name)
    ELSE IF HasKey(doc.subs, doc.subs.device_name) THEN Str(doc.subs.device_name)
    ELSE IF HasKey(doc.esphome, doc.esphome.name) THEN Str(doc.esphome.name)
    ELSE stem

IdentityByTruthy(doc, stem) ==
    IF HasTruthy(doc.subs, doc.subs.name) THEN Str(doc.subs.name)
    ELSE IF HasTruthy(doc.subs, doc.subs.device_name) THEN Str(doc.subs.device_name)
    ELSE IF HasTruthy(doc.esphome, doc.esphome.name) THEN Str(doc.esphome.name)
    ELSE stem

\* C4 as stated: the first field of the chain whose key is present wins, whatever
\* its value.
C4_IdentityPrecedence ==
    ret.done => ret.val = IdentityByKey(call.doc, call.stem)

\* C4 as amended: the first field of the chain whose key is present with a truthy
\* value wins (an empty, zero, false or null value falls through to the next
\* field); the result is the string form of that value, or the file stem.
C4_IdentityPrecedenceTruthy ==
    ret.done => ret.val = IdentityByTruthy(call.doc, call.stem)

\* substitutions.name is there but falsy, substitutions.device_name and
\* esphome.name are both truthy and differ: device_name wins
C4_Witness ==
    /\ ret.done
    /\ call.doc.subs.shape = "map"
    /\ call.doc.subs.name = VInt(0)
    /\ call.doc.subs.device_name = VStr(<<"a">>)
    /\ call.doc.esphome.name = VStr(<<"b">>)
    /\ ret.val = <<"a">>

\* C5: a file that fails to parse gets a warning and no key name: the loop neither
\* skips nor adds a key for it.
C5_UnparseableExcluded ==
    \A i \in 1..Len(outcomes) :
        files[i].raw = "unparseable" =>
            /\ ErrLine("warn_yaml", i) \in {err[j] : j \in 1..Len(err)}
            /\ outcomes[i].what = "not_a_mapping"
            /\ outcomes[i].key \notin DOMAIN merge(existing, new_kv) \ DOMAIN existing

\* C6: when the existing store is malformed, an invocation that was given it as
\* --output ends as a fatal error, having scanned nothing and left the store alone.
C6_MalformedStoreIsFatal ==
    (pc \in {"done", "exit"} /\ args.output
        /\ store0.shape \in {"unparseable", "scalar"})
    => (pc = "exit" /\ outcomes = <<>> /\ store = store0)

\* the "key: value" lines on stdout
EntryLines == SelectSeq(out, LAMBDA l : l.kind = "entry")

\* C7: a finished run in print mode (--print, or no --output) has printed exactly
\* the new entries, none under a key of the existing set, and has not touched the
\* store; otherwise the store holds exactly the merged set, whose keys are the
\* existing keys and the new keys.
C7_OutputMode ==
    pc = "done" =>
        IF args.print \/ ~args.output THEN
            /\ store = store0
            /\ EntryLines = [i \in 1..Len(new_kv) |->
                               OutLine("entry", new_kv[i][1], new_kv[i][2], 0, 0)]
            /\ DictKeys(new_kv) \cap DOMAIN existing = {}
        ELSE
            /\ EntryLines = <<>>
            /\ store.shape = "map"
            /\ DOMAIN store.entries = DOMAIN existing \cup DictKeys(new_kv)
            /\ \A k \in DOMAIN store.entries :
                  store.entries[k] =
                      VStr(IF k \in DictKeys(new_kv) THEN DictGet(new_kv, k)
                           ELSE existing[k])

\* a finished --print run with an --output whose store has entries, and two new ones
C7_Witness ==
    /\ pc = "done"
    /\ args.print /\ args.output
    /\ existing # EmptyMap
    /\ Len(new_kv) = 2

\* C8: the OTA password has min(44, max(8, length)) characters and is a prefix of
\* the base64 text of the digest.
C8_OtaTruncation ==
    (call.fn = "ota" /\ ret.done) =>
        LET full == b64encode(derive(LabelOta, call.device_name, call.master_secret))
        IN  /\ Len(full) = 44
            /\ Len(ret.val) = Min(44, Max(8, call.length))
            /\ ret.val = SubSeq(full, 1, Len(ret.val))
            /\ call.length = 32 => (Len(ret.val) >= 8 /\ Len(ret.val) <= 32)
            /\ call.length = 4 => Len(ret.val) >= 8

\* a call with a negative length returned 8 characters
C8_Witness ==
    /\ call.fn = "ota"
    /\ ret.done
    /\ call.length < 0
    /\ Len(ret.val) = 8

\* C9: a key is skipped exactly when its file yields a key of the existing set, no
\* value is derived for it, and a writing run reports as "Skipped existing" the
\* number of distinct key names it skipped.
C9_SkipAccounting ==
    /\ \A i \in 1..Len(outcomes) :
          /\ outcomes[i].what = "skipped" <=>
                (read_yaml(files[i]).isdict /\ KeyOf(i) \in DOMAIN existing)
          /\ outcomes[i].what = "skipped" => outcomes[i].value = <<>>
    /\ (pc = "done" /\ ~(args.print \/ ~args.output)) =>
          out[Len(out)].n_skipped = Cardinality(SkippedKeys)

\* the keys the files of the folder lead to in the mode of this run
DiscoveredKeys == {KeyOf(i) : i \in {j \in 1..Len(files) : read_yaml(files[j]).isdict}}

\* C10: a writing run that follows a writing run in the same mode adds nothing,
\* skips every discovered key name, and leaves the store as the first run wrote it.
C10_RerunIdempotent ==
    (pc = "done" /\ args.output /\ ~args.print /\ prev = args.mode) =>
        /\ new_kv = <<>>
        /\ AddedKeys = {}
        /\ SkippedKeys = DiscoveredKeys
        /\ store = store0

\* a second writing run skipped a key that only the first run can have written
C10_Witness ==
    /\ pc = "done"
    /\ args.output /\ ~args.print
    /\ prev = args.mode
    /\ SkippedKeys \ {KeyApiA, KeyOtaM} # {}

====
